---------------------------- MODULE Spec2Model ----------------------------
(***************************************************************************)
(* A model of pickhardtpayments: the belief about channel liquidity        *)
(* (UncertaintyChannel / UncertaintyNetwork), the liquidity oracle          *)
(* (OracleChannel / OracleLightningNetwork), the attempts and the payment   *)
(* loop (SyncPaymentSession.pickhardt_pay driving one round of planning,    *)
(* probing, learning and, at the end, settlement).                          *)
(*                                                                         *)
(* Binding of the payment loop.  pickhardt_pay gives the control flow: the  *)
(* loop guard, the round counter, the return codes and the settlement that  *)
(* follows the loop.  Inside a round it plans with the session's own        *)
(* _generate_candidate_paths / _dissect_flow_to_paths, probes every planned *)
(* attempt with OracleLightningNetwork.send_onion(attempt), learns with     *)
(* UncertaintyChannel.update_knowledge along the probed prefix (the loop of *)
(* Payment.attempt_payments), takes the residual amount from the session's  *)
(* _evaluate_attempts and settles with Payment.execute, which calls         *)
(* settle_attempt of both networks.                                         *)
(*                                                                         *)
(* Four specifications.  Spec is the payment session: construction of the  *)
(* networks, then calls of pickhardt_pay and forget_information.            *)
(* ChannelSpec is one UncertaintyChannel on its own, its setters and        *)
(* methods called in any order, as the unit tests call them.                *)
(* KnowledgeSpec is the belief about a channel and its return channel under *)
(* update_knowledge and UncertaintyNetwork.settle_attempt called on their   *)
(* own.  GraphSpec is the construction of a ChannelGraph from its file.     *)
(* Payment._dissect_flow_to_paths, which the session does not call, is      *)
(* modelled next to the session's own and checked on the flows of Spec.     *)
(*                                                                         *)
(* Amounts are satoshis.  Costs of the min cost flow problem exceed 32 bit: *)
(* they are kept as pairs <<hi, lo>> standing for hi * BASE + lo.           *)
(***************************************************************************)
EXTENDS Integers, Sequences, FiniteSets, TLC

(***************************************************************************)
(* Bounds of the model.                                                     *)
(***************************************************************************)
\* largest amount a caller asks pickhardt_pay to deliver
MaxAmt == 3
\* number of pickhardt_pay calls in one behaviour
MaxPayments == 2
\* largest liquidity the oracle's random draw yields
MaxDraw == 2
\* parallel channels of the second channel graph (more than the round cap)
NumParallel == 11
\* largest amount a caller gives allocate_inflights, with either sign
MaxAllocate == 2
\* largest mu a caller gives get_piecewise_linearized_costs
MaxMu == 2
\* largest amount a caller gives update_knowledge
MaxProbe == 3
\* largest number of channel entries in a listchannels file
MaxChannels == 2
\* largest number of edges in a describegraph file
MaxEdges == 1

(***************************************************************************)
(* Program constants.                                                       *)
(***************************************************************************)
\* UncertaintyChannel.DEFAULT_N
DEFAULT_N == 5
\* UncertaintyChannel.DEFAULT_MU
DEFAULT_MU == 1
\* the loop guard "cnt < 10" of pickhardt_pay
MAX_ROUNDS == 10
\* the pruning amount of _prepare_mcf_solver: success_probability(250_000)
PRUNE_AMOUNT == 250000
\* UncertaintyChannel.MAX_CHANNEL_SIZE = 15_000_000_000 = MAX_CHANNEL_SIZE_HI * BASE
BASE == 1000000
MAX_CHANNEL_SIZE_HI == 15000
\* DEFAULT_BASE_THRESHOLD of UncertaintyNetwork
DEFAULT_BASE_THRESHOLD == 0
\* the base fee bound _generate_candidate_paths gives theoretical_maximum_payable_amount
MINCUT_BASE_FEE == 1000
\* random.seed(12345678) of OracleLightningNetwork.__init__
SEED_NETWORK == 12345678
\* seed = 64 of OracleChannel.__init__
SEED_CHANNEL == 64

(***************************************************************************)
(* AttemptStatus                                                            *)
(***************************************************************************)
PLANNED == "PLANNED"
INFLIGHT == "INFLIGHT"
ARRIVED == "ARRIVED"
FAILED == "FAILED"
SETTLED == "SETTLED"

\* Python's None, where a channel lookup finds nothing
None == 0

(***************************************************************************)
(* Channel graphs (ChannelGraph.__init__): the channels in the order of    *)
(* network.edges, each with the fields of Channel.                          *)
(***************************************************************************)
Channel(s, d, scid, cap, ppm, base) ==
    [src |-> s, dest |-> d, short_channel_id |-> scid, capacity |-> cap,
     ppm |-> ppm, base_fee |-> base]

\* S -> M -> R over two parallel channels M -> R, a direct channel S -> R,
\* and the channel M -> S opposite to S -> M
GraphTwoHop ==
    << Channel("S", "M", 1, 10, 1000, 0),
       Channel("S", "R", 2, 7, 500, 0),
       Channel("M", "R", 3, 6, 0, 0),
       Channel("M", "R", 4, 8, 1, 0),
       Channel("M", "S", 1, 10, 1000, 0) >>

\* NumParallel parallel channels S -> R and one channel R -> S
GraphParallel ==
    [k \in 1..(NumParallel + 1) |->
        IF k <= NumParallel THEN Channel("S", "R", k, 5, k, 0)
        ELSE Channel("R", "S", k, 6, 0, 0)]

Graphs == << GraphTwoHop, GraphParallel >>

\* the senders and receivers a caller asks for: a two hop route, a route over a
\* channel whose opposite channel exists, and sender = receiver; M is no node
\* of the second graph
Endpoints == {<< "S", "R" >>, << "M", "S" >>, << "S", "S" >>}

(***************************************************************************)
(* Arithmetic on costs <<hi, lo>> = hi * BASE + lo with 0 <= lo < BASE.     *)
(***************************************************************************)
BigNorm(hi, lo) == << hi + (lo \div BASE), lo % BASE >>

BigAdd(a, b) == BigNorm(a[1] + b[1], a[2] + b[2])

\* k * a + n for small naturals k, n
BigScale(k, a, n) == BigNorm(k * a[1], k * a[2] + n)

BigLess(a, b) == a[1] < b[1] \/ (a[1] = b[1] /\ a[2] < b[2])

BigLeq(a, b) == ~BigLess(b, a)

BigZero == << 0, 0 >>

Max(a, b) == IF a >= b THEN a ELSE b

Min(a, b) == IF a <= b THEN a ELSE b


(***************************************************************************)
(* State.                                                                   *)
(***************************************************************************)
VARIABLES
    graph,              \* the channel graph in use: an index into Graphs
    prune_network,      \* SyncSimulatedPaymentSession._prune_network
    pc,                 \* position of the program
    created,            \* number of channels OracleLightningNetwork.__init__ has created
    seeded,             \* what random.seed(s); random.randint(0, capacity) yields, by <<s, capacity>>
    actual_liquidity,   \* OracleChannel._actual_liquidity, by channel
    oracle_in_flight,   \* OracleChannel._in_flight, by channel
    min_liquidity,      \* UncertaintyChannel._min_liquidity, by channel
    max_liquidity,      \* UncertaintyChannel._max_liquidity, by channel
    in_flight,          \* UncertaintyChannel._in_flight, by channel
    sender,             \* payment.sender
    receiver,           \* payment.receiver
    total_amount,       \* the amount pickhardt_pay was called with
    amt,                \* the local variable amt of pickhardt_pay: the residual amount
    mu,                 \* the parameter mu of pickhardt_pay
    cnt,                \* the round counter of pickhardt_pay
    attempts,           \* payment.attempts
    sub_attempts,       \* sub_payment.attempts: the attempts of the current round
    successful,         \* payment.successful
    ret,                \* what the last pickhardt_pay returned: << >> before any return
    exit_code,          \* the status of exit(), 0 while the process runs
    raised,             \* the exception that left pickhardt_pay uncaught, "" if none
    n_payments,         \* number of pickhardt_pay calls so far
    liquidity_created,  \* history: actual_liquidity as __init__ set it
    liquidity_start,    \* history: actual_liquidity when the current pickhardt_pay began
    last,               \* history: the last call a caller made on one UncertaintyChannel
    channels,           \* ChannelGraph.__init__: the channel entries still to be added
    network             \* ChannelGraph._channel_graph: the edges added

vars == << graph, prune_network, pc, created, seeded, actual_liquidity, oracle_in_flight,
           min_liquidity, max_liquidity, in_flight, sender, receiver, total_amount, amt,
           mu, cnt, attempts, sub_attempts, successful, ret, exit_code, raised, n_payments,
           liquidity_created, liquidity_start, last, channels, network >>

Chans == Graphs[graph]

ChannelIds == DOMAIN Chans

\* ChannelGraph.get_channel: the channel (src, dest, short_channel_id), or None
get_channel(s, d, scid) ==
    IF \E c \in ChannelIds : /\ Chans[c].src = s
                             /\ Chans[c].dest = d
                             /\ Chans[c].short_channel_id = scid
    THEN CHOOSE c \in ChannelIds : /\ Chans[c].src = s
                                   /\ Chans[c].dest = d
                                   /\ Chans[c].short_channel_id = scid
    ELSE None

\* the channel in the opposite direction, as every caller looks it up
return_channel_of(c) == get_channel(Chans[c].dest, Chans[c].src, Chans[c].short_channel_id)

\* the nodes of the network: network.nodes()
GraphNodes == {Chans[c].src : c \in ChannelIds} \cup {Chans[c].dest : c \in ChannelIds}

(***************************************************************************)
(* UncertaintyChannel: pure functions of the belief.                        *)
(***************************************************************************)
conditional_capacity(c) ==
    Max(max_liquidity[c] - Max(min_liquidity[c], in_flight[c]), 0)

\* success_probability with the share of the failing liquidities in its last branch
success_probability_of_failure(c, a) ==
    LET tested_liquidity == a + in_flight[c]
        conditional_amount == tested_liquidity - min_liquidity[c]
        cond_cap == max_liquidity[c] - min_liquidity[c]
    IN  IF tested_liquidity <= min_liquidity[c] THEN << 1, 1 >>
        ELSE IF tested_liquidity >= max_liquidity[c] THEN << 0, 1 >>
        ELSE IF conditional_amount >= cond_cap THEN << 0, 1 >>
        ELSE << conditional_amount, cond_cap + 1 >>

\* success_probability as a fraction << numerator, denominator >>
success_probability(c, a) ==
    LET tested_liquidity == a + in_flight[c]
        conditional_amount == tested_liquidity - min_liquidity[c]
        cond_cap == max_liquidity[c] - min_liquidity[c]
    IN  IF tested_liquidity <= min_liquidity[c] THEN << 1, 1 >>
        ELSE IF tested_liquidity >= max_liquidity[c] THEN << 0, 1 >>
        ELSE IF conditional_amount >= cond_cap THEN << 0, 1 >>
        ELSE << cond_cap + 1 - conditional_amount, cond_cap + 1 >>

\* int(MAX_CHANNEL_SIZE / max(conditional_capacity, 1))
linearized_integer_uncertainty_unit_cost(c) ==
    LET d == Max(conditional_capacity(c), 1)
    IN  << MAX_CHANNEL_SIZE_HI \div d, ((MAX_CHANNEL_SIZE_HI % d) * BASE) \div d >>

\* int(ppm * amt / 1000) + base_fee
routing_cost_msat(c, a) == ((Chans[c].ppm * a) \div 1000) + Chans[c].base_fee

linearized_integer_routing_unit_cost(c) == Chans[c].ppm

combined_linearized_unit_cost(c, m) ==
    BigScale(1, linearized_integer_uncertainty_unit_cost(c),
             m * linearized_integer_routing_unit_cost(c))

\* the pieces (capacity, unit cost) of the piecewise linearized cost
get_piecewise_linearized_costs(c, number_of_pieces, m) ==
    LET certain == min_liquidity[c] - in_flight[c]
        free == IF certain > 0
                THEN << [capacity |-> certain,
                         cost |-> BigNorm(0, m * linearized_integer_routing_unit_cost(c))] >>
                ELSE << >>
        n == IF certain > 0 THEN number_of_pieces - 1 ELSE number_of_pieces
        arc_capacity == conditional_capacity(c) \div n
        uncertainty_unit_cost == linearized_integer_uncertainty_unit_cost(c)
    IN  IF conditional_capacity(c) > 0 /\ n > 0
        THEN free \o [i \in 1..n |->
                        [capacity |-> arc_capacity,
                         cost |-> BigScale(i, uncertainty_unit_cost,
                                           m * linearized_integer_routing_unit_cost(c))]]
        ELSE free

(***************************************************************************)
(* Attempt.__init__: the path, the amount, the fee and the probability the  *)
(* belief gives at planning, status PLANNED.                                *)
(***************************************************************************)
RECURSIVE path_fee(_, _)
path_fee(path, a) ==
    IF path = << >> THEN 0
    ELSE routing_cost_msat(Head(path), a) + path_fee(Tail(path), a)

RECURSIVE path_probability(_, _)
path_probability(path, a) ==
    IF path = << >> THEN << 1, 1 >>
    ELSE LET p == success_probability(Head(path), a)
             q == path_probability(Tail(path), a)
         IN  << p[1] * q[1], p[2] * q[2] >>

Attempt(path, a) ==
    [path |-> path, amount |-> a, routing_fee |-> path_fee(path, a),
     probability |-> path_probability(path, a), status |-> PLANNED]


(***************************************************************************)
(* _prepare_mcf_solver and Solve(): the arcs of a channel, and the flows    *)
(* per channel the min cost flow solver may return as OPTIMAL.              *)
(***************************************************************************)
\* the channels of the UncertaintyNetwork: UncertaintyNetwork.__init__ drops the others
UncertaintyChannels == {c \in ChannelIds : Chans[c].base_fee <= DEFAULT_BASE_THRESHOLD}

\* the arcs _prepare_mcf_solver adds for channel c
arcs_of(c, m, base) ==
    LET p == success_probability(c, PRUNE_AMOUNT)
        pieces == get_piecewise_linearized_costs(c, DEFAULT_N, m)
    IN  IF Chans[c].base_fee > base THEN << >>
        ELSE IF prune_network /\ p[1] * 10 < 9 * p[2] THEN << >>
        ELSE IF prune_network THEN SubSeq(pieces, 1, Min(Len(pieces), 3))
        ELSE pieces

RECURSIVE arcs_capacity(_)
arcs_capacity(arcs) ==
    IF arcs = << >> THEN 0 ELSE Head(arcs).capacity + arcs_capacity(Tail(arcs))

\* the cheapest way to send f units over arcs whose unit costs do not decrease
RECURSIVE arcs_cost(_, _)
arcs_cost(arcs, f) ==
    IF f = 0 \/ arcs = << >> THEN BigZero
    ELSE LET t == Min(f, Head(arcs).capacity)
         IN  BigAdd(BigScale(t, Head(arcs).cost, 0), arcs_cost(Tail(arcs), f - t))

\* the simple paths of channels out of C from node n to node d, not entering visited
RECURSIVE channel_paths(_, _, _, _)
channel_paths(n, d, visited, C) ==
    IF n = d THEN {<< >>}
    ELSE UNION { { << c >> \o p : p \in channel_paths(Chans[c].dest, d,
                                                     visited \cup {Chans[c].dest}, C) } :
                 c \in {x \in C : Chans[x].src = n /\ Chans[x].dest \notin visited} }

\* every way to split n units over the paths P, path p taking at most limit[p]
RECURSIVE splits(_, _, _)
splits(P, n, limit) ==
    IF P = {} THEN (IF n = 0 THEN {<< >>} ELSE {})
    ELSE LET p == CHOOSE x \in P : TRUE
         IN  UNION { { (p :> k) @@ f : f \in splits(P \ {p}, n - k, limit) } :
                     k \in 0..Min(n, limit[p]) }

RECURSIVE path_limit(_, _)
path_limit(path, capacity) ==
    IF Len(path) = 1 THEN capacity[Head(path)]
    ELSE Min(capacity[Head(path)], path_limit(Tail(path), capacity))

in_path(c, path) == \E i \in DOMAIN path : path[i] = c

RECURSIVE sum_over(_, _)
sum_over(f, S) ==
    IF S = {} THEN 0
    ELSE LET x == CHOOSE y \in S : TRUE IN f[x] + sum_over(f, S \ {x})

\* a faulty objective: every flow costs nothing, so every feasible flow is optimal
flow_cost_free(flow, C, m, base) == BigZero

RECURSIVE flow_cost(_, _, _, _)
flow_cost(flow, C, m, base) ==
    IF C = {} THEN BigZero
    ELSE LET c == CHOOSE x \in C : TRUE
         IN  BigAdd(arcs_cost(arcs_of(c, m, base), flow[c]),
                    flow_cost(flow, C \ {c}, m, base))

\* the feasible flows per channel for supply +a at s and -a at d
feasible_flows(s, d, a, m, base) ==
    LET capacity == [c \in UncertaintyChannels |-> arcs_capacity(arcs_of(c, m, base))]
        C == {c \in UncertaintyChannels : capacity[c] > 0}
        P == channel_paths(s, d, {s}, C)
        limit == [p \in P |-> path_limit(p, capacity)]
        flow_of(split) ==
            [c \in UncertaintyChannels |-> sum_over(split, {p \in P : in_path(c, p)})]
    IN  { f \in { flow_of(split) : split \in splits(P, a, limit) } :
            \A c \in UncertaintyChannels : f[c] <= capacity[c] }

\* the flows Solve() may return with status OPTIMAL; none: another status.
\* SetNodeSupply(dest) overwrites SetNodeSupply(src) when src = dest: UNBALANCED.
optimal_flows(s, d, a, m, base) ==
    LET F == IF s = d THEN {} ELSE feasible_flows(s, d, a, m, base)
        priced == {<< f, flow_cost(f, UncertaintyChannels, m, base) >> : f \in F}
    IN  {p[1] : p \in {x \in priced : \A y \in priced : BigLeq(x[2], y[2])}}

(***************************************************************************)
(* SyncSimulatedPaymentSession._dissect_flow_to_paths                       *)
(***************************************************************************)
\* the edges of G: an arc with flow adds its channel unless G already has an
\* edge between the two nodes under another short_channel_id
session_flow_graph(flow) ==
    [c \in UncertaintyChannels |->
        IF \E x \in UncertaintyChannels : /\ x < c
                                          /\ flow[x] > 0
                                          /\ Chans[x].src = Chans[c].src
                                          /\ Chans[x].dest = Chans[c].dest
        THEN 0 ELSE flow[c]]

\* the simple node paths from n to d over the edges of G
RECURSIVE node_paths(_, _, _, _)
node_paths(n, d, visited, G) ==
    IF n = d THEN {<< d >>}
    ELSE UNION { { << n >> \o p : p \in node_paths(x, d, visited \cup {x}, G) } :
                 x \in {Chans[c].dest : c \in {e \in DOMAIN G : G[e] > 0 /\ Chans[e].src = n}}
                          \ visited }

\* nx.shortest_path(G, s, d): a node path with the fewest hops
shortest_path(G, s, d) ==
    LET P == node_paths(s, d, {s}, G)
    IN  CHOOSE p \in P : \A q \in P : Len(p) <= Len(q)

\* _make_channel_path: per hop the channel of least weight (the first one added on ties)
hop_channel(G, weight, n1, n2) ==
    LET E == {c \in DOMAIN G : G[c] > 0 /\ Chans[c].src = n1 /\ Chans[c].dest = n2}
    IN  CHOOSE c \in E : \A x \in E : \/ BigLess(weight[c], weight[x])
                                      \/ (weight[c] = weight[x] /\ c <= x)

_make_channel_path(G, weight, path) ==
    [i \in 1..(Len(path) - 1) |-> hop_channel(G, weight, path[i], path[i + 1])]

\* a faulty _make_channel_path: the flow used is one unit, whatever the path carries
bottleneck_of_one_unit(G, channel_path) == 1

\* a faulty _make_channel_path: the bottleneck is the flow of the first hop
bottleneck_of_first_hop(G, channel_path) == G[Head(channel_path)]

RECURSIVE bottleneck_of(_, _)
bottleneck_of(G, channel_path) ==
    IF Len(channel_path) = 1 THEN G[Head(channel_path)]
    ELSE Min(G[Head(channel_path)], bottleneck_of(G, Tail(channel_path)))

RECURSIVE dissect_loop(_, _, _, _)
dissect_loop(G, weight, s, d) ==
    IF node_paths(s, d, {s}, G) = {} THEN << >>
    ELSE LET path == shortest_path(G, s, d)
             channel_path == _make_channel_path(G, weight, path)
             used_flow == bottleneck_of(G, channel_path)
             G2 == [c \in DOMAIN G |->
                      IF in_path(c, channel_path) THEN G[c] - used_flow ELSE G[c]]
         IN  << Attempt(channel_path, used_flow) >> \o dissect_loop(G2, weight, s, d)

_dissect_flow_to_paths(flow, s, d) ==
    LET weight == [c \in UncertaintyChannels |-> combined_linearized_unit_cost(c, DEFAULT_MU)]
    IN  dissect_loop(session_flow_graph(flow), weight, s, d)


(***************************************************************************)
(* Payment._dissect_flow_to_paths: as the one of the session, but an arc     *)
(* with flow adds to the edge of its own short_channel_id or adds that edge  *)
(***************************************************************************)
Payment_flow_graph(flow) == [c \in UncertaintyChannels |-> flow[c]]

Payment_dissect_flow_to_paths(flow, s, d) ==
    LET weight == [c \in UncertaintyChannels |-> combined_linearized_unit_cost(c, DEFAULT_MU)]
    IN  dissect_loop(Payment_flow_graph(flow), weight, s, d)

(***************************************************************************)
(* OracleLightningNetwork                                                   *)
(***************************************************************************)
\* what random.seed(s); random.randint(0, capacity) may yield: one value per
\* seed and capacity, the same at every call
randint(s, capacity) ==
    LET drawn == {t \in seeded : t[1] = s /\ t[2] = capacity}
    IN  IF drawn # {} THEN {t[3] : t \in drawn} ELSE 0..Min(capacity, MaxDraw)

\* OracleChannel.__init__ draws anew, under SEED_CHANNEL, for such a liquidity
OracleChannel_redraws(c, liquidity) ==
    liquidity >= Chans[c].capacity \/ liquidity < 0

\* the setters of OracleChannel accept a value in 0..capacity
setter_accepts(c, value) == 0 <= value /\ value <= Chans[c].capacity

\* a faulty can_forward: an amount equal to the liquidity is refused
can_forward_strictly_less(liquidity, a) == a < liquidity

\* OracleChannel.can_forward
can_forward(liquidity, a) == a <= liquidity

\* a faulty send_onion: forwarding the onion already moves the liquidity
forward_onion_moves_liquidity(c, a, st) ==
    [st EXCEPT !.actual_liquidity[c] = @ - a,
               !.oracle_in_flight[c] = @ + a,
               !.in_flight[c] = @ + a]

\* send_onion for a channel that can forward: the amount is placed in flight on
\* the oracle channel and on the uncertainty channel
forward_onion(c, a, st) ==
    [st EXCEPT !.oracle_in_flight[c] = @ + a, !.in_flight[c] = @ + a]

\* a faulty send_onion: an onion that passes every channel is marked SETTLED
RECURSIVE send_onion_settles(_, _, _, _)
send_onion_settles(path, i, a, st) ==
    IF i > Len(path) THEN [st EXCEPT !.status = SETTLED]
    ELSE LET c == path[i]
         IN  IF can_forward(st.actual_liquidity[c], st.oracle_in_flight[c] + a)
             THEN send_onion_settles(path, i + 1, a, forward_onion(c, a, st))
             ELSE [st EXCEPT !.status = FAILED, !.erring = i]

\* send_onion from hop i on: st holds actual_liquidity, oracle_in_flight,
\* in_flight, the status of the attempt and the position of the erring
\* channel (0: none)
RECURSIVE send_onion(_, _, _, _)
send_onion(path, i, a, st) ==
    IF i > Len(path) THEN [st EXCEPT !.status = INFLIGHT]
    ELSE LET c == path[i]
         IN  IF can_forward(st.actual_liquidity[c], st.oracle_in_flight[c] + a)
             THEN send_onion(path, i + 1, a, forward_onion(c, a, st))
             ELSE [st EXCEPT !.status = FAILED, !.erring = i]

\* theoretical_maximum_payable_amount: the nodes of test_network, built from
\* the channels with a liquidity > 0
test_network_nodes(liquidity, base_fee) ==
    LET E == {c \in ChannelIds : Chans[c].base_fee <= base_fee /\ liquidity[c] > 0}
    IN  {Chans[c].src : c \in E} \cup {Chans[c].dest : c \in E}

RECURSIVE sum_over_channels(_, _)
sum_over_channels(f, C) ==
    IF C = {} THEN 0
    ELSE LET c == CHOOSE x \in C : TRUE IN f[c] + sum_over_channels(f, C \ {c})

\* the capacity of the cut X of test_network
cut_capacity(liquidity, X, base_fee) ==
    sum_over_channels(liquidity, {c \in ChannelIds : /\ Chans[c].base_fee <= base_fee
                                                     /\ Chans[c].src \in X
                                                     /\ Chans[c].dest \notin X})

\* nx.minimum_cut raises NetworkXError for a node that is not in test_network
\* and for source = destination
minimum_cut_raises(liquidity, s, d, base_fee) ==
    \/ s \notin test_network_nodes(liquidity, base_fee)
    \/ d \notin test_network_nodes(liquidity, base_fee)
    \/ s = d

\* the value of nx.minimum_cut(test_network, source, destination)
theoretical_maximum_payable_amount(liquidity, s, d, base_fee) ==
    LET cuts == {X \in SUBSET GraphNodes : s \in X /\ d \notin X}
    IN  CHOOSE m \in {cut_capacity(liquidity, X, base_fee) : X \in cuts} :
            \A X \in cuts : m <= cut_capacity(liquidity, X, base_fee)

\* a faulty settle_attempt: the balance of the channel in the other direction
\* is not increased
oracle_settle_channel_one_sided(c, a, st) ==
    IF st.actual_liquidity[c] > a
    THEN [st EXCEPT !.actual_liquidity[c] = @ - a, !.oracle_in_flight[c] = @ - a]
    ELSE [st EXCEPT !.raised = TRUE]

\* OracleLightningNetwork.settle_attempt for one channel of the path: st holds
\* actual_liquidity, oracle_in_flight and whether an exception was raised; a
\* setter that raises leaves what was assigned before it
oracle_settle_channel(c, a, st) ==
    LET r == return_channel_of(c)
        s1 == [st EXCEPT !.actual_liquidity[c] = @ - a]
        s2 == [s1 EXCEPT !.oracle_in_flight[c] = @ - a]
        s3 == IF r = None THEN s2 ELSE [s2 EXCEPT !.actual_liquidity[r] = @ + a]
    IN  IF ~(st.actual_liquidity[c] > a) THEN [st EXCEPT !.raised = TRUE]
        ELSE IF ~setter_accepts(c, s1.actual_liquidity[c]) THEN [st EXCEPT !.raised = TRUE]
        ELSE IF ~setter_accepts(c, s2.oracle_in_flight[c]) THEN [s1 EXCEPT !.raised = TRUE]
        ELSE IF r # None /\ ~setter_accepts(r, s3.actual_liquidity[r])
             THEN [s2 EXCEPT !.raised = TRUE]
        ELSE s3

\* OracleLightningNetwork.settle_attempt from hop i on
RECURSIVE oracle_settle_attempt(_, _, _, _)
oracle_settle_attempt(path, i, a, st) ==
    IF i > Len(path) \/ st.raised THEN st
    ELSE oracle_settle_attempt(path, i + 1, a, oracle_settle_channel(path[i], a, st))

(***************************************************************************)
(* UncertaintyChannel.update_knowledge and UncertaintyNetwork.settle_attempt *)
(***************************************************************************)
\* UncertaintyNetwork.get_channel(channel.dest, channel.src, channel.short_channel_id)
uncertainty_return_channel(c) ==
    IF return_channel_of(c) \in UncertaintyChannels THEN return_channel_of(c) ELSE None

\* a faulty update_knowledge: a successful probe sets min_liquidity to in_flight,
\* also where more was known
update_knowledge_forgets_minimum(st, c, amount, return_channel, probing_successful) ==
    LET r == return_channel
        capacity_r == Chans[r].capacity
        mn == IF probing_successful
              THEN [st.min_liquidity EXCEPT ![c] = st.in_flight[c]]
              ELSE st.min_liquidity
        mx == IF probing_successful
              THEN st.max_liquidity
              ELSE [st.max_liquidity EXCEPT ![c] = Min(@, st.in_flight[c] + amount - 1)]
        mn_r == IF ~probing_successful /\ r # None
                THEN [mn EXCEPT ![r] = Max(@, capacity_r - mx[c])] ELSE mn
        mx_r == IF probing_successful /\ r # None
                THEN [mx EXCEPT ![r] = Min(@, capacity_r - mn[c])] ELSE mx
    IN  [st EXCEPT !.min_liquidity = mn_r,
                   !.max_liquidity = mx_r,
                   !.exit_code = IF mn_r[c] > mx_r[c] THEN -10
                                 ELSE IF r # None /\ mn_r[r] > mx_r[r] THEN -20
                                 ELSE 0]

\* a faulty update_knowledge: a failed probe bounds max_liquidity by the amount
\* alone, without the amount in flight
update_knowledge_of_amount_alone(st, c, amount, return_channel, probing_successful) ==
    LET r == return_channel
        capacity_r == Chans[r].capacity
        mn == IF probing_successful
              THEN [st.min_liquidity EXCEPT ![c] = Max(@, st.in_flight[c])]
              ELSE st.min_liquidity
        mx == IF probing_successful
              THEN st.max_liquidity
              ELSE [st.max_liquidity EXCEPT ![c] = Min(@, amount - 1)]
        mn_r == IF ~probing_successful /\ r # None
                THEN [mn EXCEPT ![r] = Max(@, capacity_r - mx[c])] ELSE mn
        mx_r == IF probing_successful /\ r # None
                THEN [mx EXCEPT ![r] = Min(@, capacity_r - mn[c])] ELSE mx
    IN  [st EXCEPT !.min_liquidity = mn_r,
                   !.max_liquidity = mx_r,
                   !.exit_code = IF mn_r[c] > mx_r[c] THEN -10
                                 ELSE IF r # None /\ mn_r[r] > mx_r[r] THEN -20
                                 ELSE 0]

\* st holds min_liquidity, max_liquidity, in_flight and the status of exit() (0: no exit)
update_knowledge(st, c, amount, return_channel, probing_successful) ==
    LET r == return_channel
        capacity_r == Chans[r].capacity
        mn == IF probing_successful
              THEN [st.min_liquidity EXCEPT ![c] = Max(@, st.in_flight[c])]
              ELSE st.min_liquidity
        mx == IF probing_successful
              THEN st.max_liquidity
              ELSE [st.max_liquidity EXCEPT ![c] = Min(@, st.in_flight[c] + amount - 1)]
        mn_r == IF ~probing_successful /\ r # None
                THEN [mn EXCEPT ![r] = Max(@, capacity_r - mx[c])] ELSE mn
        mx_r == IF probing_successful /\ r # None
                THEN [mx EXCEPT ![r] = Min(@, capacity_r - mn[c])] ELSE mx
    IN  [st EXCEPT !.min_liquidity = mn_r,
                   !.max_liquidity = mx_r,
                   !.exit_code = IF mn_r[c] > mx_r[c] THEN -10
                                 ELSE IF r # None /\ mn_r[r] > mx_r[r] THEN -20
                                 ELSE 0]

\* the loop of Payment.attempt_payments over the path: success for every channel
\* before the erring one, failure for the erring one, and nothing after it
RECURSIVE learn(_, _, _, _, _)
learn(path, i, amount, erring, st) ==
    IF i > Len(path) \/ st.exit_code # 0 THEN st
    ELSE LET u == update_knowledge(st, path[i], amount,
                                   uncertainty_return_channel(path[i]), i # erring)
         IN  IF i = erring THEN u ELSE learn(path, i + 1, amount, erring, u)


\* UncertaintyNetwork.settle_attempt from hop i on: st holds min_liquidity,
\* max_liquidity, in_flight and whether the exception was raised
RECURSIVE uncertainty_settle_attempt(_, _, _, _)
uncertainty_settle_attempt(path, i, a, st) ==
    IF i > Len(path) THEN st
    ELSE LET c == path[i]
             r == uncertainty_return_channel(c)
             s1 == [st EXCEPT !.min_liquidity[c] = Max(@ - a, 0),
                              !.max_liquidity[c] = Max(@ - a, 0),
                              !.in_flight[c] = @ - a]
             s2 == IF r = None THEN s1
                   ELSE [s1 EXCEPT !.min_liquidity[r] = Min(@ + a, Chans[r].capacity),
                                   !.max_liquidity[r] = Min(@ + a, Chans[r].capacity)]
         IN  IF st.max_liquidity[c] > a
             THEN uncertainty_settle_attempt(path, i + 1, a, s2)
             ELSE [st EXCEPT !.raised = TRUE]

(***************************************************************************)
(* Attempts of a payment                                                    *)
(***************************************************************************)
\* Payment.filter_attempts: the positions of the attempts with status flag
filter_attempts(list, flag) == {i \in DOMAIN list : list[i].status = flag}

first_of(S) == CHOOSE i \in S : \A j \in S : i <= j

RECURSIVE sum_amounts(_, _)
sum_amounts(list, S) ==
    IF S = {} THEN 0
    ELSE LET i == CHOOSE j \in S : TRUE IN list[i].amount + sum_amounts(list, S \ {i})

RECURSIVE sum_fees(_, _)
sum_fees(list, S) ==
    IF S = {} THEN 0
    ELSE LET i == CHOOSE j \in S : TRUE IN list[i].routing_fee + sum_fees(list, S \ {i})

\* Payment.settlement_fees
settlement_fees == sum_fees(attempts, filter_attempts(attempts, SETTLED))

\* the residual amount _evaluate_attempts returns: the amounts of the failed attempts
_evaluate_attempts(list) == sum_amounts(list, filter_attempts(list, FAILED))


(***************************************************************************)
(* The program: construction of the two networks, then calls of             *)
(* pickhardt_pay and forget_information.                                    *)
(***************************************************************************)
\* the amounts a caller asks for; pickhardt_pay takes a negative amount and 0 as well
Amounts == (0 - 1)..MaxAmt

graph_vars == << channels, network >>
fixture_vars == << graph, prune_network, mu, last, graph_vars >>
construction_vars == << created, seeded, liquidity_created >>
oracle_vars == << actual_liquidity, oracle_in_flight >>
belief_vars == << min_liquidity, max_liquidity, in_flight >>
call_vars == << sender, receiver, total_amount, n_payments, liquidity_start >>

\* no call was made on the channel yet
NoCall == [op |-> "", arg |-> << >>,
           before |-> [min_liquidity |-> 0, max_liquidity |-> 0, in_flight |-> 0],
           result |-> << >>, raised |-> ""]

\* UncertaintyNetwork.__init__ (every channel after forget_information) and the
\* session's constructor; the oracle network is still to be constructed
Init ==
    /\ graph \in DOMAIN Graphs
    /\ prune_network \in BOOLEAN
    /\ mu = DEFAULT_MU
    /\ pc = "construct"
    /\ created = 0
    /\ seeded = {}
    /\ actual_liquidity = [c \in ChannelIds |-> 0]
    /\ oracle_in_flight = [c \in ChannelIds |-> 0]
    /\ min_liquidity = [c \in ChannelIds |-> 0]
    /\ max_liquidity = [c \in ChannelIds |-> Chans[c].capacity]
    /\ in_flight = [c \in ChannelIds |-> 0]
    /\ sender = ""
    /\ receiver = ""
    /\ total_amount = 0
    /\ amt = 0
    /\ cnt = 0
    /\ attempts = << >>
    /\ sub_attempts = << >>
    /\ successful = FALSE
    /\ ret = << >>
    /\ exit_code = 0
    /\ raised = ""
    /\ n_payments = 0
    /\ liquidity_created = [c \in ChannelIds |-> 0]
    /\ liquidity_start = [c \in ChannelIds |-> 0]
    /\ last = NoCall
    /\ channels = << >>
    /\ network = {}

\* one iteration of the loop of OracleLightningNetwork.__init__: channel created + 1
OracleLightningNetwork_init ==
    /\ pc = "construct"
    /\ LET c == created + 1
           capacity == Chans[c].capacity
           opposite_channel == return_channel_of(c)
           matched == opposite_channel # None /\ opposite_channel <= created
       IN  \E v \in (IF matched THEN {0} ELSE randint(SEED_NETWORK, capacity)) :
             LET liquidity == IF matched
                              THEN capacity - actual_liquidity[opposite_channel]
                              ELSE v
                 redraw == OracleChannel_redraws(c, liquidity)
             IN  \E w \in (IF redraw THEN randint(SEED_CHANNEL, capacity) ELSE {0}) :
                   LET new_liquidity == IF redraw THEN w ELSE liquidity
                   IN  /\ actual_liquidity' = [actual_liquidity EXCEPT ![c] = new_liquidity]
                       /\ liquidity_created' = [liquidity_created EXCEPT ![c] = new_liquidity]
                       /\ seeded' = seeded
                                    \cup (IF matched THEN {}
                                          ELSE {<< SEED_NETWORK, capacity, v >>})
                                    \cup (IF redraw THEN {<< SEED_CHANNEL, capacity, w >>}
                                          ELSE {})
                       /\ created' = c
                       /\ pc' = IF c = Len(Chans) THEN "idle" ELSE "construct"
    /\ UNCHANGED << fixture_vars, oracle_in_flight, belief_vars, call_vars, amt, cnt,
                    attempts, sub_attempts, successful, ret, exit_code, raised >>

\* pickhardt_pay(src, dest, amt) up to the loop
pickhardt_pay(src, dest, a) ==
    /\ pc = "idle"
    /\ n_payments < MaxPayments
    /\ n_payments' = n_payments + 1
    /\ sender' = src
    /\ receiver' = dest
    /\ total_amount' = a
    /\ amt' = a
    /\ cnt' = 0
    /\ attempts' = << >>
    /\ sub_attempts' = << >>
    /\ successful' = FALSE
    /\ ret' = << >>
    /\ liquidity_start' = actual_liquidity
    /\ pc' = "loop"
    /\ UNCHANGED << fixture_vars, construction_vars, oracle_vars, belief_vars,
                    exit_code, raised >>

\* _prepare_mcf_solver raises MCFSolverError for a sender or receiver without mcf id
unknown_node == sender \notin GraphNodes \/ receiver \notin GraphNodes

\* a faulty loop guard: one round less
loop_guard_one_round_less == amt > 0 /\ cnt < MAX_ROUNDS - 1

\* the guard of the payment loop: while amt > 0 and cnt < 10
loop_guard == amt > 0 /\ cnt < MAX_ROUNDS

\* the condition of settlement after the loop: if amt == 0
settlement_due == amt = 0

round_begins == pc = "loop" /\ loop_guard

\* a faulty handler of MCFSolverError: break, which leads to the return 1 after
\* the loop, where return -1 is due
MCFSolverError_breaks ==
    /\ round_begins
    /\ \/ unknown_node
       \/ /\ ~minimum_cut_raises(actual_liquidity, sender, receiver, MINCUT_BASE_FEE)
          /\ optimal_flows(sender, receiver, amt, mu, DEFAULT_BASE_THRESHOLD) = {}
    /\ cnt' = cnt + 1
    /\ ret' = << 1 >>
    /\ pc' = "idle"
    /\ UNCHANGED << fixture_vars, construction_vars, oracle_vars, belief_vars, call_vars,
                    amt, attempts, sub_attempts, successful, exit_code, raised >>

\* a round whose _generate_candidate_paths raises MCFSolverError: return -1
MCFSolverError ==
    /\ round_begins
    /\ \/ unknown_node
       \/ /\ ~minimum_cut_raises(actual_liquidity, sender, receiver, MINCUT_BASE_FEE)
          /\ optimal_flows(sender, receiver, amt, mu, DEFAULT_BASE_THRESHOLD) = {}
    /\ cnt' = cnt + 1
    /\ ret' = << -1 >>
    /\ pc' = "idle"
    /\ UNCHANGED << fixture_vars, construction_vars, oracle_vars, belief_vars, call_vars,
                    amt, attempts, sub_attempts, successful, exit_code, raised >>

\* a round whose theoretical_maximum_payable_amount raises: nothing catches it
NetworkXError ==
    /\ round_begins
    /\ ~unknown_node
    /\ minimum_cut_raises(actual_liquidity, sender, receiver, MINCUT_BASE_FEE)
    /\ cnt' = cnt + 1
    /\ raised' = "NetworkXError"
    /\ pc' = "raised"
    /\ UNCHANGED << fixture_vars, construction_vars, oracle_vars, belief_vars, call_vars,
                    amt, attempts, sub_attempts, successful, ret, exit_code >>

\* a round whose solver is OPTIMAL: the attempts of the round are planned
_generate_candidate_paths ==
    /\ round_begins
    /\ ~unknown_node
    /\ ~minimum_cut_raises(actual_liquidity, sender, receiver, MINCUT_BASE_FEE)
    /\ \E flow \in optimal_flows(sender, receiver, amt, mu, DEFAULT_BASE_THRESHOLD) :
         sub_attempts' = _dissect_flow_to_paths(flow, sender, receiver)
    /\ cnt' = cnt + 1
    /\ pc' = "attempt"
    /\ UNCHANGED << fixture_vars, construction_vars, oracle_vars, belief_vars, call_vars,
                    amt, attempts, successful, ret, exit_code, raised >>


\* Payment.attempt_payments for the next planned attempt of the round:
\* send_onion, then update_knowledge along the probed part of the path
attempt_payments ==
    /\ pc = "attempt"
    /\ filter_attempts(sub_attempts, PLANNED) # {}
    /\ LET i == first_of(filter_attempts(sub_attempts, PLANNED))
           attempt == sub_attempts[i]
           onion == send_onion(attempt.path, 1, attempt.amount,
                               [actual_liquidity |-> actual_liquidity,
                                oracle_in_flight |-> oracle_in_flight,
                                in_flight |-> in_flight,
                                status |-> attempt.status,
                                erring |-> 0])
           belief == learn(attempt.path, 1, attempt.amount, onion.erring,
                           [min_liquidity |-> min_liquidity,
                            max_liquidity |-> max_liquidity,
                            in_flight |-> onion.in_flight,
                            exit_code |-> 0])
       IN  /\ actual_liquidity' = onion.actual_liquidity
           /\ oracle_in_flight' = onion.oracle_in_flight
           /\ in_flight' = onion.in_flight
           /\ min_liquidity' = belief.min_liquidity
           /\ max_liquidity' = belief.max_liquidity
           /\ sub_attempts' = [sub_attempts EXCEPT ![i].status = onion.status]
           /\ exit_code' = belief.exit_code
           /\ pc' = IF belief.exit_code # 0 THEN "exit" ELSE "attempt"
    /\ UNCHANGED << fixture_vars, construction_vars, call_vars,
                    amt, cnt, attempts, successful, ret, raised >>

\* the end of a round: the residual amount and payment.add_attempts
end_of_round ==
    /\ pc = "attempt"
    /\ filter_attempts(sub_attempts, PLANNED) = {}
    /\ amt' = _evaluate_attempts(sub_attempts)
    /\ attempts' = attempts \o sub_attempts
    /\ sub_attempts' = << >>
    /\ pc' = "loop"
    /\ UNCHANGED << fixture_vars, construction_vars, oracle_vars, belief_vars, call_vars,
                    cnt, successful, ret, exit_code, raised >>

\* the loop has ended and no settlement is due: return 1
return_unsettled ==
    /\ pc = "loop"
    /\ ~loop_guard
    /\ ~settlement_due
    /\ ret' = << 1 >>
    /\ pc' = "idle"
    /\ UNCHANGED << fixture_vars, construction_vars, oracle_vars, belief_vars, call_vars,
                    amt, cnt, attempts, sub_attempts, successful, exit_code, raised >>

\* Payment.execute for the next attempt in flight: settle_attempt of the oracle,
\* settle_attempt of the belief, the status, the range check on the last channel;
\* an exception anywhere ends pickhardt_pay with -1
execute ==
    /\ pc = "loop"
    /\ ~loop_guard
    /\ settlement_due
    /\ filter_attempts(attempts, INFLIGHT) # {}
    /\ LET i == first_of(filter_attempts(attempts, INFLIGHT))
           attempt == attempts[i]
           channel == attempt.path[Len(attempt.path)]
           oracle == oracle_settle_attempt(attempt.path, 1, attempt.amount,
                                           [actual_liquidity |-> actual_liquidity,
                                            oracle_in_flight |-> oracle_in_flight,
                                            raised |-> FALSE])
           belief == uncertainty_settle_attempt(attempt.path, 1, attempt.amount,
                                                [min_liquidity |-> min_liquidity,
                                                 max_liquidity |-> max_liquidity,
                                                 in_flight |-> in_flight,
                                                 raised |-> FALSE])
           in_range == /\ oracle.actual_liquidity[channel] <= belief.max_liquidity[channel]
                       /\ oracle.actual_liquidity[channel] >= belief.min_liquidity[channel]
       IN  /\ actual_liquidity' = oracle.actual_liquidity
           /\ oracle_in_flight' = oracle.oracle_in_flight
           /\ IF oracle.raised
              THEN UNCHANGED << belief_vars, attempts >>
              ELSE /\ min_liquidity' = belief.min_liquidity
                   /\ max_liquidity' = belief.max_liquidity
                   /\ in_flight' = belief.in_flight
                   /\ attempts' = IF belief.raised THEN attempts
                                  ELSE [attempts EXCEPT ![i].status = SETTLED]
           /\ IF oracle.raised \/ belief.raised \/ ~in_range
              THEN ret' = << -1 >> /\ pc' = "idle"
              ELSE UNCHANGED << ret, pc >>
    /\ UNCHANGED << fixture_vars, construction_vars, call_vars, amt, cnt, sub_attempts,
                    successful, exit_code, raised >>

\* every attempt in flight is settled: payment.successful = True, the summary,
\* return 1; the summary divides settlement_fees * 1000 by payment.total_amount
return_successful ==
    /\ pc = "loop"
    /\ ~loop_guard
    /\ settlement_due
    /\ filter_attempts(attempts, INFLIGHT) = {}
    /\ successful' = TRUE
    /\ IF total_amount = 0
       THEN raised' = "ZeroDivisionError" /\ pc' = "raised" /\ UNCHANGED ret
       ELSE ret' = << 1 >> /\ pc' = "idle" /\ UNCHANGED raised
    /\ UNCHANGED << fixture_vars, construction_vars, oracle_vars, belief_vars, call_vars,
                    amt, cnt, attempts, sub_attempts, exit_code >>

\* a faulty reset: the amounts in flight are kept
forget_information_keeps_in_flight ==
    /\ pc = "idle"
    /\ min_liquidity' = [c \in ChannelIds |-> 0]
    /\ max_liquidity' = [c \in ChannelIds |-> Chans[c].capacity]
    /\ UNCHANGED << fixture_vars, construction_vars, oracle_vars, call_vars, pc, amt, cnt,
                    attempts, sub_attempts, successful, ret, exit_code, raised, in_flight >>

\* the session's forget_information: reset_uncertainty_network
forget_information ==
    /\ pc = "idle"
    /\ min_liquidity' = [c \in ChannelIds |-> 0]
    /\ max_liquidity' = [c \in ChannelIds |-> Chans[c].capacity]
    /\ in_flight' = [c \in ChannelIds |-> 0]
    /\ UNCHANGED << fixture_vars, construction_vars, oracle_vars, call_vars, pc, amt, cnt,
                    attempts, sub_attempts, successful, ret, exit_code, raised >>

Next ==
    \/ OracleLightningNetwork_init
    \/ \E e \in Endpoints, a \in Amounts : pickhardt_pay(e[1], e[2], a)
    \/ MCFSolverError
    \/ NetworkXError
    \/ _generate_candidate_paths
    \/ attempt_payments
    \/ end_of_round
    \/ return_unsettled
    \/ execute
    \/ return_successful
    \/ forget_information

Spec == Init /\ [][Next]_vars

(***************************************************************************)
(* The UncertaintyChannel on its own: a caller that holds one channel, as   *)
(* the unit tests do, and calls its setters and methods in any order.       *)
(***************************************************************************)
\* the channel the caller holds: S -> R of the first channel graph
_channel == 2

\* the values a caller assigns: one below zero up to one above the capacity
Values == (0 - 1)..(Chans[_channel].capacity + 1)

\* the amounts a caller assigns to in_flight: zero up to one above the capacity
InFlightValues == 0..(Chans[_channel].capacity + 1)

\* the amounts a caller gives success_probability: zero up to one above the capacity
ProbedAmounts == 0..(Chans[_channel].capacity + 1)

\* the amounts a caller gives allocate_inflights
Allocations == (0 - MaxAllocate)..MaxAllocate

session_vars == << graph, prune_network, mu, graph_vars, construction_vars, oracle_vars, call_vars, pc,
                   amt, cnt, attempts, sub_attempts, successful, ret, exit_code, raised >>

\* the belief of the channel as the caller reads it through the properties
belief == [min_liquidity |-> min_liquidity[_channel],
           max_liquidity |-> max_liquidity[_channel],
           in_flight |-> in_flight[_channel]]

\* UncertaintyChannel.__init__ of every channel of the graph; no network is constructed
ChannelInit ==
    /\ graph = 1
    /\ prune_network = FALSE
    /\ mu = DEFAULT_MU
    /\ pc = "channel"
    /\ created = 0
    /\ seeded = {}
    /\ actual_liquidity = [c \in ChannelIds |-> 0]
    /\ oracle_in_flight = [c \in ChannelIds |-> 0]
    /\ min_liquidity = [c \in ChannelIds |-> 0]
    /\ max_liquidity = [c \in ChannelIds |-> Chans[c].capacity]
    /\ in_flight = [c \in ChannelIds |-> 0]
    /\ sender = ""
    /\ receiver = ""
    /\ total_amount = 0
    /\ amt = 0
    /\ cnt = 0
    /\ attempts = << >>
    /\ sub_attempts = << >>
    /\ successful = FALSE
    /\ ret = << >>
    /\ exit_code = 0
    /\ raised = ""
    /\ n_payments = 0
    /\ liquidity_created = [c \in ChannelIds |-> 0]
    /\ liquidity_start = [c \in ChannelIds |-> 0]
    /\ last = NoCall
    /\ channels = << >>
    /\ network = {}

\* channel.min_liquidity = value
min_liquidity_setter(value) ==
    /\ pc = "channel"
    /\ min_liquidity' = [min_liquidity EXCEPT ![_channel] = value]
    /\ last' = [op |-> "min_liquidity", arg |-> << value >>, before |-> belief,
                result |-> << >>, raised |-> ""]
    /\ UNCHANGED << session_vars, max_liquidity, in_flight >>

\* channel.max_liquidity = value
max_liquidity_setter(value) ==
    /\ pc = "channel"
    /\ max_liquidity' = [max_liquidity EXCEPT ![_channel] = value]
    /\ last' = [op |-> "max_liquidity", arg |-> << value >>, before |-> belief,
                result |-> << >>, raised |-> ""]
    /\ UNCHANGED << session_vars, min_liquidity, in_flight >>

\* channel.in_flight = value
in_flight_setter(value) ==
    /\ pc = "channel"
    /\ in_flight' = [in_flight EXCEPT ![_channel] = value]
    /\ last' = [op |-> "in_flight", arg |-> << value >>, before |-> belief,
                result |-> << >>, raised |-> ""]
    /\ UNCHANGED << session_vars, min_liquidity, max_liquidity >>

\* UncertaintyChannel.allocate_inflights on the state st = [in_flight, raised]:
\* the amount is added first, the exception is raised afterwards
allocate_inflights(st, a) ==
    LET added == st.in_flight + a
    IN  IF st.raised # "" THEN st
        ELSE [in_flight |-> added, raised |-> IF added < 0 THEN "Exception" ELSE ""]

\* channel.allocate_inflights(a)
call_allocate_inflights(a) ==
    LET after == allocate_inflights([in_flight |-> in_flight[_channel], raised |-> ""], a)
    IN  /\ pc = "channel"
        /\ after.in_flight \in InFlightValues \cup Allocations
        /\ in_flight' = [in_flight EXCEPT ![_channel] = after.in_flight]
        /\ last' = [op |-> "allocate_inflights", arg |-> << a >>, before |-> belief,
                    result |-> << >>, raised |-> after.raised]
        /\ UNCHANGED << session_vars, min_liquidity, max_liquidity >>

\* channel.allocate_inflights(a) followed by channel.allocate_inflights(-a); an
\* exception of the first call ends the sequence
call_allocate_and_release(a) ==
    LET first == allocate_inflights([in_flight |-> in_flight[_channel], raised |-> ""], a)
        after == allocate_inflights(first, 0 - a)
    IN  /\ pc = "channel"
        /\ in_flight' = [in_flight EXCEPT ![_channel] = after.in_flight]
        /\ last' = [op |-> "allocate_and_release", arg |-> << a >>, before |-> belief,
                    result |-> << >>, raised |-> after.raised]
        /\ UNCHANGED << session_vars, min_liquidity, max_liquidity >>

\* channel.forget_information()
call_forget_information ==
    /\ pc = "channel"
    /\ min_liquidity' = [min_liquidity EXCEPT ![_channel] = 0]
    /\ max_liquidity' = [max_liquidity EXCEPT ![_channel] = Chans[_channel].capacity]
    /\ in_flight' = [in_flight EXCEPT ![_channel] = 0]
    /\ last' = [op |-> "forget_information", arg |-> << >>, before |-> belief,
                result |-> << >>, raised |-> ""]
    /\ UNCHANGED session_vars

\* channel.success_probability(a)
call_success_probability(a) ==
    /\ pc = "channel"
    /\ last' = [op |-> "success_probability", arg |-> << a >>, before |-> belief,
                result |-> success_probability(_channel, a), raised |-> ""]
    /\ UNCHANGED << session_vars, belief_vars >>

\* channel.get_piecewise_linearized_costs(number_of_pieces, m)
call_get_piecewise_linearized_costs(number_of_pieces, m) ==
    /\ pc = "channel"
    /\ last' = [op |-> "get_piecewise_linearized_costs", arg |-> << number_of_pieces, m >>,
                before |-> belief,
                result |-> get_piecewise_linearized_costs(_channel, number_of_pieces, m),
                raised |-> ""]
    /\ UNCHANGED << session_vars, belief_vars >>

ChannelNext ==
    \/ \E value \in Values : min_liquidity_setter(value)
    \/ \E value \in Values : max_liquidity_setter(value)
    \/ \E value \in InFlightValues : in_flight_setter(value)
    \/ \E a \in Allocations : call_allocate_inflights(a)
    \/ \E a \in 0..MaxAllocate : call_allocate_and_release(a)
    \/ call_forget_information
    \/ \E a \in ProbedAmounts : call_success_probability(a)
    \/ \E number_of_pieces \in 1..DEFAULT_N, m \in 0..MaxMu :
           call_get_piecewise_linearized_costs(number_of_pieces, m)

ChannelSpec == ChannelInit /\ [][ChannelNext]_vars

(***************************************************************************)
(* update_knowledge and settle_attempt on their own: a caller that          *)
(* allocates amounts on the channels of the first graph, reports probes of  *)
(* them, each with the return channel looked up as Payment.attempt_payments *)
(* looks it up, and settles attempts over them.                             *)
(***************************************************************************)
\* the channels probed: S -> M, whose return channel is M -> S, and S -> R,
\* which has no return channel
ProbedChannels == {1, 2}

KnowledgeInit ==
    /\ graph = 1
    /\ prune_network = FALSE
    /\ mu = DEFAULT_MU
    /\ pc = "knowledge"
    /\ created = 0
    /\ seeded = {}
    /\ actual_liquidity = [c \in ChannelIds |-> 0]
    /\ oracle_in_flight = [c \in ChannelIds |-> 0]
    /\ min_liquidity = [c \in ChannelIds |-> 0]
    /\ max_liquidity = [c \in ChannelIds |-> Chans[c].capacity]
    /\ in_flight = [c \in ChannelIds |-> 0]
    /\ sender = ""
    /\ receiver = ""
    /\ total_amount = 0
    /\ amt = 0
    /\ cnt = 0
    /\ attempts = << >>
    /\ sub_attempts = << >>
    /\ successful = FALSE
    /\ ret = << >>
    /\ exit_code = 0
    /\ raised = ""
    /\ n_payments = 0
    /\ liquidity_created = [c \in ChannelIds |-> 0]
    /\ liquidity_start = [c \in ChannelIds |-> 0]
    /\ last = NoCall
    /\ channels = << >>
    /\ network = {}

knowledge_vars == << graph, prune_network, mu, graph_vars, construction_vars, oracle_vars,
                     call_vars, amt, cnt, attempts, sub_attempts, successful, ret, raised >>

\* channel.allocate_inflights(a) for an amount that keeps in_flight within 0..MaxAllocate
knowledge_allocate_inflights(c, a) ==
    LET after == allocate_inflights([in_flight |-> in_flight[c], raised |-> ""], a)
    IN  /\ pc = "knowledge"
        /\ after.in_flight \in 0..MaxAllocate
        /\ in_flight' = [in_flight EXCEPT ![c] = after.in_flight]
        /\ last' = [NoCall EXCEPT !.op = "allocate_inflights", !.arg = << c, a >>]
        /\ UNCHANGED << knowledge_vars, min_liquidity, max_liquidity, pc, exit_code >>

\* channel.update_knowledge(amount, return_channel, probing_successful)
call_update_knowledge(c, amount, probing_successful) ==
    LET belief_after == update_knowledge([min_liquidity |-> min_liquidity,
                                          max_liquidity |-> max_liquidity,
                                          in_flight |-> in_flight,
                                          exit_code |-> 0],
                                         c, amount, uncertainty_return_channel(c),
                                         probing_successful)
    IN  /\ pc = "knowledge"
        /\ min_liquidity' = belief_after.min_liquidity
        /\ max_liquidity' = belief_after.max_liquidity
        /\ in_flight' = belief_after.in_flight
        /\ exit_code' = belief_after.exit_code
        /\ pc' = IF belief_after.exit_code # 0 THEN "exit" ELSE "knowledge"
        /\ last' = [NoCall EXCEPT !.op = "update_knowledge",
                                  !.arg = << c, amount, IF probing_successful THEN 1 ELSE 0 >>]
        /\ UNCHANGED knowledge_vars

\* uncertainty_network.settle_attempt(attempt) for an attempt over one of the
\* channels, whose amount is in flight on it
call_settle_attempt(c, amount) ==
    LET belief_after == uncertainty_settle_attempt(<< c >>, 1, amount,
                                                   [min_liquidity |-> min_liquidity,
                                                    max_liquidity |-> max_liquidity,
                                                    in_flight |-> in_flight,
                                                    raised |-> FALSE])
    IN  /\ pc = "knowledge"
        /\ in_flight[c] >= amount
        /\ min_liquidity' = belief_after.min_liquidity
        /\ max_liquidity' = belief_after.max_liquidity
        /\ in_flight' = belief_after.in_flight
        /\ raised' = IF belief_after.raised THEN "Exception" ELSE ""
        /\ pc' = IF belief_after.raised THEN "raised" ELSE "knowledge"
        /\ last' = [NoCall EXCEPT !.op = "settle_attempt", !.arg = << c, amount >>]
        /\ UNCHANGED << graph, prune_network, mu, graph_vars, construction_vars, oracle_vars,
                        call_vars, amt, cnt, attempts, sub_attempts, successful, ret,
                        exit_code >>

KnowledgeNext ==
    \/ \E c \in ProbedChannels, a \in Allocations : knowledge_allocate_inflights(c, a)
    \/ \E c \in ProbedChannels, amount \in 0..MaxProbe, probing_successful \in BOOLEAN :
           call_update_knowledge(c, amount, probing_successful)
    \/ \E c \in ProbedChannels, amount \in 1..MaxAllocate : call_settle_attempt(c, amount)

KnowledgeSpec == KnowledgeInit /\ [][KnowledgeNext]_vars

(***************************************************************************)
(* ChannelGraph on its own: the construction of the graph from a file in    *)
(* the format of lightning-cli listchannels or of lncli describegraph.      *)
(***************************************************************************)
\* the entries of a listchannels file, with the fields the graph is built from
ChannelEntries ==
    [source : {"A", "B"}, destination : {"A", "B"}, short_channel_id : {1, 2},
     public : BOOLEAN, active : BOOLEAN]

\* the edges of a describegraph file: a policy is None, or has disabled false or true
Policies == {"None", "enabled", "disabled"}

Edges ==
    [node1_pub : {"A"}, node2_pub : {"B"}, channel_id : {1},
     node1_policy : Policies, node2_policy : Policies]

\* the sequences over S of length 0..n
RECURSIVE SeqUpTo(_, _)
SeqUpTo(S, n) ==
    IF n = 0 THEN {<< >>}
    ELSE SeqUpTo(S, n - 1) \cup {Append(q, x) : q \in {r \in SeqUpTo(S, n - 1) : Len(r) = n - 1},
                                                x \in S}

\* lnd2cln_json for one edge: one dictionary, public, is filled per direction with
\* a policy (node1 first) and appended once per direction; active takes the value
\* of disabled
lnd2cln_channel(edge) ==
    LET node1 == [source |-> edge.node1_pub, destination |-> edge.node2_pub,
                  short_channel_id |-> edge.channel_id, public |-> TRUE,
                  active |-> edge.node1_policy = "disabled"]
        node2 == [source |-> edge.node2_pub, destination |-> edge.node1_pub,
                  short_channel_id |-> edge.channel_id, public |-> TRUE,
                  active |-> edge.node2_policy = "disabled"]
    IN  IF edge.node1_policy # "None" /\ edge.node2_policy # "None" THEN << node2, node2 >>
        ELSE IF edge.node1_policy # "None" THEN << node1 >>
        ELSE IF edge.node2_policy # "None" THEN << node2 >>
        ELSE << >>

RECURSIVE lnd2cln_json(_)
lnd2cln_json(edges) ==
    IF edges = << >> THEN << >>
    ELSE lnd2cln_channel(Head(edges)) \o lnd2cln_json(Tail(edges))

\* _get_channel_json: what a file of either format yields
_get_channel_json ==
    SeqUpTo(ChannelEntries, MaxChannels)
        \cup {lnd2cln_json(edges) : edges \in SeqUpTo(Edges, MaxEdges)}

\* ChannelGraph.__init__ before its loop; last holds the call of lnd2cln_json
\* for a file in the format of lnd
GraphInit ==
    /\ channels \in _get_channel_json
    /\ network = {}
    /\ graph = 1
    /\ prune_network = FALSE
    /\ mu = DEFAULT_MU
    /\ pc = "graph"
    /\ created = 0
    /\ seeded = {}
    /\ actual_liquidity = [c \in ChannelIds |-> 0]
    /\ oracle_in_flight = [c \in ChannelIds |-> 0]
    /\ min_liquidity = [c \in ChannelIds |-> 0]
    /\ max_liquidity = [c \in ChannelIds |-> Chans[c].capacity]
    /\ in_flight = [c \in ChannelIds |-> 0]
    /\ sender = ""
    /\ receiver = ""
    /\ total_amount = 0
    /\ amt = 0
    /\ cnt = 0
    /\ attempts = << >>
    /\ sub_attempts = << >>
    /\ successful = FALSE
    /\ ret = << >>
    /\ exit_code = 0
    /\ raised = ""
    /\ n_payments = 0
    /\ liquidity_created = [c \in ChannelIds |-> 0]
    /\ liquidity_start = [c \in ChannelIds |-> 0]
    /\ \/ /\ channels \in SeqUpTo(ChannelEntries, MaxChannels)
          /\ last = NoCall
       \/ \E edges \in SeqUpTo(Edges, MaxEdges) :
             /\ channels = lnd2cln_json(edges)
             /\ last = [NoCall EXCEPT !.op = "lnd2cln_json", !.arg = edges,
                                      !.result = lnd2cln_json(edges)]

\* networkx add_edge(src, dest, key, channel): an edge with the same end points
\* and key gets the new channel
add_edge(G, src, dest, key, channel) ==
    {e \in G : ~(e.src = src /\ e.dest = dest /\ e.key = key)}
        \cup {[src |-> src, dest |-> dest, key |-> key, channel |-> channel]}

\* one iteration of the loop of ChannelGraph.__init__
ChannelGraph_init ==
    /\ pc = "graph"
    /\ channels # << >>
    /\ LET channel == Head(channels)
       IN  network' = add_edge(network, channel.source, channel.destination,
                               channel.short_channel_id, channel)
    /\ channels' = Tail(channels)
    /\ UNCHANGED << graph, prune_network, mu, last, construction_vars, oracle_vars,
                    belief_vars, call_vars, pc, amt, cnt, attempts, sub_attempts,
                    successful, ret, exit_code, raised >>

GraphNext == ChannelGraph_init

GraphSpec == GraphInit /\ [][GraphNext]_vars


(***************************************************************************)
(* Properties.                                                              *)
(***************************************************************************)
\* the channels that have a channel in the opposite direction under the same
\* short_channel_id
paired == {c \in ChannelIds : return_channel_of(c) # None}

pair_sums_to_capacity(liquidity, c) ==
    liquidity[c] + liquidity[return_channel_of(c)] = Chans[c].capacity

\* positions of pickhardt_pay after its return
returned == pc = "idle" /\ ret # << >>
solver_failed == returned /\ ret = << -1 >> /\ amt > 0
settlement_raised == returned /\ ret = << -1 >> /\ amt = 0
round_cap_reached == returned /\ ret = << 1 >> /\ ~successful /\ amt > 0
delivered == returned /\ ret = << 1 >> /\ successful

\* C1: from the initial belief, after any planning, probing, settlement and
\* forget_information every uncertainty channel has
\* 0 <= min_liquidity <= max_liquidity <= capacity and in_flight >= 0, and
\* update_knowledge never reaches its exit for min_liquidity > max_liquidity.
C1_BeliefWellFormed ==
    /\ \A c \in ChannelIds : /\ 0 <= min_liquidity[c]
                             /\ min_liquidity[c] <= max_liquidity[c]
                             /\ max_liquidity[c] <= Chans[c].capacity
                             /\ in_flight[c] >= 0
    /\ exit_code = 0

\* C2: a pair of opposite oracle channels whose liquidities sum to the capacity
\* before a call of OracleLightningNetwork.settle_attempt still sums to the
\* capacity after it, whether the call returns or raises.
C2_SettlementKeepsPairSums ==
    [][execute =>
         \A c \in paired : pair_sums_to_capacity(actual_liquidity, c)
                           => pair_sums_to_capacity(actual_liquidity', c)]_vars

\* C2 happens: an attempt over a channel of a pair has been settled, a later
\* settle_attempt of the same payment has raised, and the pair sums to the capacity
C2_Witness ==
    /\ settlement_raised
    /\ \E i \in filter_attempts(attempts, SETTLED) :
         \E h \in DOMAIN attempts[i].path :
            /\ attempts[i].path[h] \in paired
            /\ pair_sums_to_capacity(actual_liquidity, attempts[i].path[h])
            /\ actual_liquidity[attempts[i].path[h]] # liquidity_start[attempts[i].path[h]]

\* C3: a channel that OracleLightningNetwork.__init__ creates after its opposite
\* channel, created with liquidity L, gets actual_liquidity = capacity - L, for
\* every L in 0..capacity.
C3_OppositeLiquidityMatched ==
    \A c \in 1..created :
        (c \in paired /\ return_channel_of(c) < c)
            => liquidity_created[c] = Chans[c].capacity - liquidity_created[return_channel_of(c)]

\* the amount of the attempts in S, once per channel of the path
RECURSIVE sum_amount_per_channel(_, _)
sum_amount_per_channel(list, S) ==
    IF S = {} THEN 0
    ELSE LET i == CHOOSE j \in S : TRUE
         IN  list[i].amount * Len(list[i].path) + sum_amount_per_channel(list, S \ {i})

\* C4: between the rounds and after the return of the first pickhardt_pay, the
\* in_flight of all oracle channels sums to the amounts of the attempts that
\* are neither SETTLED nor FAILED, once per channel of their paths.
C4_OracleInFlightIsLiveAttempts ==
    (n_payments = 1 /\ pc \in {"loop", "idle"})
        => sum_over_channels(oracle_in_flight, ChannelIds)
           = sum_amount_per_channel(attempts,
                 {i \in DOMAIN attempts : attempts[i].status \notin {SETTLED, FAILED}})


C6_DeliveredInFull ==
    delivered =>
        /\ sum_amounts(attempts, filter_attempts(attempts, SETTLED)) = total_amount
        /\ filter_attempts(attempts, INFLIGHT) = {}

\* C7: when a payment ends short of the full amount because the solver failed
\* or the round cap was reached, none of its attempts is SETTLED and every
\* oracle channel has the actual_liquidity it had when pickhardt_pay began.
C7_CleanFailureSettlesNothing ==
    (solver_failed \/ round_cap_reached) =>
        /\ filter_attempts(attempts, SETTLED) = {}
        /\ actual_liquidity = liquidity_start

\* C7 happens: the solver failed while attempts of earlier rounds were in flight
C7_Witness == solver_failed /\ filter_attempts(attempts, INFLIGHT) # {}

\* the channels on the paths of the attempts of the payment
touched == UNION { {attempts[i].path[h] : h \in DOMAIN attempts[i].path} : i \in DOMAIN attempts }

\* C8: when pickhardt_pay returns after a delivery, a solver failure or the
\* round cap, every channel on the path of one of its attempts has in_flight = 0
\* in the uncertainty network and in the oracle network.
C8_InFlightRolledBack ==
    (delivered \/ solver_failed \/ round_cap_reached) =>
        \A c \in touched : in_flight[c] = 0 /\ oracle_in_flight[c] = 0

\* the probability of the attempt emitted last is at least 0.05
last_probability_above_floor ==
    attempts # << >> =>
        LET p == attempts[Len(attempts)].probability IN p[1] * 20 >= p[2]

C10_AboveMinCutFailsCleanly ==
    (/\ n_payments >= 1
     /\ sender \in GraphNodes
     /\ receiver \in GraphNodes
     /\ sender # receiver
     /\ total_amount > theoretical_maximum_payable_amount(liquidity_start, sender, receiver,
                                                          MINCUT_BASE_FEE))
        => /\ cnt <= 15
           /\ filter_attempts(attempts, SETTLED) = {}
           /\ ~settlement_raised
           /\ exit_code = 0


\* the position of pickhardt_pay where the next attempt in flight is settled
settling ==
    /\ pc = "loop"
    /\ ~loop_guard
    /\ settlement_due
    /\ filter_attempts(attempts, INFLIGHT) # {}

\* C11: when an attempt that reached INFLIGHT is settled, every oracle channel
\* on its path has an actual_liquidity of at least the amount, and
\* OracleLightningNetwork.settle_attempt does not raise, also when the amounts
\* in flight over a channel sum to exactly its actual_liquidity.
C11_SettlementNeverRaises ==
    settling =>
        LET attempt == attempts[first_of(filter_attempts(attempts, INFLIGHT))]
            oracle == oracle_settle_attempt(attempt.path, 1, attempt.amount,
                                            [actual_liquidity |-> actual_liquidity,
                                             oracle_in_flight |-> oracle_in_flight,
                                             raised |-> FALSE])
        IN  /\ \A h \in DOMAIN attempt.path :
                   actual_liquidity[attempt.path[h]] >= attempt.amount
            /\ ~oracle.raised

\* C12: when the probe of a PLANNED attempt fails, at whatever hop, the
\* in_flight of every uncertainty channel on its path is afterwards what it was
\* before: a FAILED attempt holds no in_flight.
C12_FailedAttemptHoldsNoInFlight ==
    [][pc = "attempt" =>
         \A i \in DOMAIN sub_attempts :
             (sub_attempts[i].status = PLANNED /\ sub_attempts'[i].status = FAILED) =>
                 \A h \in DOMAIN sub_attempts[i].path :
                     in_flight'[sub_attempts[i].path[h]] = in_flight[sub_attempts[i].path[h]]]_vars

\* the amounts of the attempts of list over channel c
amount_over(list, c) == sum_amounts(list, {i \in DOMAIN list : in_path(c, list[i].path)})

\* C13: the construction of the attempts of a round sets every one of them to
\* PLANNED and adds its amount to the in_flight of every uncertainty channel of
\* its path.
C13_ConstructionAllocatesInFlight ==
    [][(pc = "loop" /\ pc' = "attempt") =>
         /\ \A i \in DOMAIN sub_attempts' : sub_attempts'[i].status = PLANNED
         /\ \A c \in ChannelIds :
                in_flight'[c] = in_flight[c] + amount_over(sub_attempts', c)]_vars

\* exp(UncertaintyNetwork.entropy()): the product over the channels from c on
\* of conditional_capacity + 1, as a pair << hi, lo >>
RECURSIVE entropy_product(_)
entropy_product(c) ==
    IF c \notin ChannelIds THEN << 0, 1 >>
    ELSE CHOOSE product \in
             {BigScale(IF c \in UncertaintyChannels THEN conditional_capacity(c) + 1 ELSE 1,
                       rest, 0) : rest \in {entropy_product(c + 1)}} : TRUE

\* the channels of UncertaintyNetwork.entropy() are the edges of the network
entropy == entropy_product(1)

called(op) == last.op = op

\* the summed capacities of the pieces from index i on
RECURSIVE pieces_capacity(_, _)
pieces_capacity(pieces, i) ==
    IF i > Len(pieces) THEN 0 ELSE pieces[i].capacity + pieces_capacity(pieces, i + 1)

\* C15: for every belief state, every mu >= 0 and every number of pieces N >= 1 the
\* pieces get_piecewise_linearized_costs returns have capacities that sum to
\* (min_liquidity - in_flight) + conditional_capacity, and their unit costs never
\* decrease along the list.
C15_PiecesCoverTheCapacity ==
    called("get_piecewise_linearized_costs") =>
        LET pieces == last.result
        IN  /\ pieces_capacity(pieces, 1) =
                   (min_liquidity[_channel] - in_flight[_channel])
                       + conditional_capacity(_channel)
            /\ \A i \in 1..(Len(pieces) - 1) : BigLeq(pieces[i].cost, pieces[i + 1].cost)

\* the order of two probabilities given as fractions with positive denominators
FracLeq(p, q) == p[1] * q[2] <= q[1] * p[2]

\* what success_probability returns for each amount under the current belief
probabilities == [a \in ProbedAmounts |-> success_probability(_channel, a)]

\* C16: under every belief state success_probability never increases with its
\* argument (amt1 <= amt2 gives success_probability(amt1) >= success_probability(amt2)),
\* and a call that only raises in_flight raises the result for no amount.
C16_ProbabilityIsMonotone ==
    [][(pc = "channel") =>
         \A now \in {probabilities}, after \in {probabilities'} :
             /\ \A a1, a2 \in ProbedAmounts : a1 <= a2 => FracLeq(now[a2], now[a1])
             /\ (/\ min_liquidity' = min_liquidity
                 /\ max_liquidity' = max_liquidity
                 /\ in_flight'[_channel] >= in_flight[_channel])
                    => \A a \in ProbedAmounts : FracLeq(after[a], now[a])]_vars

\* a probability strictly between 0 and 1 was returned with an amount in flight
C16_Witness ==
    /\ called("success_probability")
    /\ in_flight[_channel] > 0
    /\ 0 < last.result[1]
    /\ last.result[1] < last.result[2]

\* two probabilities given as fractions with positive denominators are equal
FracEq(p, q) == p[1] * q[2] = q[1] * p[2]

\* C17: with t = amt + in_flight, success_probability(amt) is 1 if t <= min_liquidity,
\* 0 if t >= max_liquidity and (max - min + 1 - (t - min)) / (max - min + 1) otherwise;
\* so it depends on amt and in_flight through their sum only (a call that changes
\* in_flight alone leaves the result of every equal sum equal), and an amount above
\* the capacity has probability 0.
C17_ProbabilityOfTheSum ==
    [][(pc = "channel") =>
         \A now \in {probabilities}, after \in {probabilities'} :
             /\ \A a \in ProbedAmounts :
                    LET t == a + in_flight[_channel]
                        cond_cap == max_liquidity[_channel] - min_liquidity[_channel]
                    IN  /\ t <= min_liquidity[_channel] => FracEq(now[a], << 1, 1 >>)
                        /\ (t > min_liquidity[_channel] /\ t >= max_liquidity[_channel])
                               => FracEq(now[a], << 0, 1 >>)
                        /\ (t > min_liquidity[_channel] /\ t < max_liquidity[_channel])
                               => FracEq(now[a], << cond_cap + 1 - (t - min_liquidity[_channel]),
                                                    cond_cap + 1 >>)
                        /\ a > Chans[_channel].capacity => FracEq(now[a], << 0, 1 >>)
             /\ (min_liquidity' = min_liquidity /\ max_liquidity' = max_liquidity)
                    => \A a, b \in ProbedAmounts :
                           a + in_flight[_channel] = b + in_flight'[_channel]
                               => FracEq(now[a], after[b])]_vars

\* C18: assigning min_liquidity a value below 0 or above the current max_liquidity, or
\* max_liquidity a value below 0, below the current min_liquidity or above the
\* capacity, raises an error and leaves (min_liquidity, max_liquidity) as they were.
C18_InvalidAssignmentRejected ==
    LET value == last.arg[1]
        rejected == /\ last.raised # ""
                    /\ min_liquidity[_channel] = last.before.min_liquidity
                    /\ max_liquidity[_channel] = last.before.max_liquidity
    IN  /\ (called("min_liquidity") /\ (value < 0 \/ value > last.before.max_liquidity))
               => rejected
        /\ (/\ called("max_liquidity")
            /\ \/ value < 0
               \/ value < last.before.min_liquidity
               \/ value > Chans[_channel].capacity)
               => rejected

\* C19: allocate_inflights(amt) with in_flight + amt < 0 raises an error and leaves
\* in_flight at the value it had before the call, never negative.
C19_NegativeAllocationRefused ==
    (called("allocate_inflights") /\ last.before.in_flight + last.arg[1] < 0) =>
        /\ last.raised # ""
        /\ in_flight[_channel] = last.before.in_flight

\* C20: from every channel state and for every amount a >= 0, allocate_inflights(+a)
\* followed by allocate_inflights(-a) raises no error and restores exactly the
\* (min_liquidity, max_liquidity, in_flight) found before.
C20_AllocateThenReleaseRestores ==
    called("allocate_and_release") =>
        /\ last.raised = ""
        /\ belief = last.before

(***************************************************************************)
(* Further contracts of the payment session, under Spec.                    *)
(***************************************************************************)
\* the product of capacity + 1 over the uncertainty channels from channel c on:
\* two to the power of the sum of log2(capacity + 1)
RECURSIVE capacity_product(_)
capacity_product(c) ==
    IF c \notin ChannelIds THEN << 0, 1 >>
    ELSE CHOOSE product \in
             {BigScale(IF c \in UncertaintyChannels THEN Chans[c].capacity + 1 ELSE 1,
                       rest, 0) : rest \in {capacity_product(c + 1)}} : TRUE

\* every channel is as forget_information leaves it
forgotten ==
    \A c \in UncertaintyChannels :
        /\ min_liquidity[c] = 0
        /\ max_liquidity[c] = Chans[c].capacity
        /\ in_flight[c] = 0

\* C21: from any reachable belief state reset_uncertainty_network leaves every
\* uncertainty channel at (min_liquidity, max_liquidity, in_flight) = (0, capacity, 0),
\* so every conditional_capacity is the capacity and entropy() is the sum over the
\* channels of log2(capacity + 1).
C21_ResetForgetsEverything ==
    [][(pc = "idle" /\ pc' = "idle") =>
         /\ forgotten'
         /\ \A c \in UncertaintyChannels : conditional_capacity(c)' = Chans[c].capacity
         /\ entropy' = capacity_product(1)]_vars

\* the belief is reset after a payment that was delivered
C21_Witness ==
    /\ pc = "idle"
    /\ successful
    /\ total_amount > 0
    /\ forgotten

\* pickhardt_pay is under way: between its call and its return, raise or exit
in_call == pc = "loop" \/ pc = "attempt"

\* the step creates no attempt and leaves every uncertainty channel and every
\* oracle channel as it is
no_side_effect ==
    /\ attempts' = << >>
    /\ sub_attempts' = << >>
    /\ UNCHANGED << belief_vars, oracle_vars >>

\* C22: pickhardt_pay with amount 0 returns (0, 0) without raising, creates no
\* attempt and leaves (min_liquidity, max_liquidity, in_flight) of every uncertainty
\* channel and (actual_liquidity, in_flight) of every oracle channel unchanged.
C22_ZeroAmountReturnsAtOnce ==
    [][(in_call /\ total_amount = 0) =>
         /\ pc' = "idle"
         /\ ret' = << 0, 0 >>
         /\ raised' = ""
         /\ no_side_effect]_vars

\* C23: pickhardt_pay with a negative amount, or with a sender or receiver that is
\* no node of the graph, reports an error to its caller, creates no attempt and
\* leaves every uncertainty channel and every oracle channel unchanged.
C23_InvalidInputReported ==
    [][(in_call /\ (total_amount < 0 \/ unknown_node)) =>
         /\ \/ pc' = "idle" /\ ret' = << -1 >>
            \/ pc' = "raised" /\ raised' # ""
         /\ no_side_effect]_vars

\* the solver is called and returns OPTIMAL
solver_called ==
    /\ round_begins
    /\ ~unknown_node
    /\ ~minimum_cut_raises(actual_liquidity, sender, receiver, MINCUT_BASE_FEE)

\* the lists of attempts _generate_candidate_paths may return in this state, one
\* for each flow the solver may return
candidate_paths ==
    {_dissect_flow_to_paths(flow, sender, receiver) :
        flow \in optimal_flows(sender, receiver, amt, mu, DEFAULT_BASE_THRESHOLD)}

\* C24: two runs from the same channel graph, the same oracle construction and the
\* same (sender, receiver, amount, mu, base fee threshold) make the same attempts:
\* the oracle and the belief determine every probe and every settlement, and in every
\* round the attempts planned (paths, order, amounts) are the same whichever
\* optimal flow the solver returns.
C24_OnePlanPerRound ==
    solver_called => \A list1, list2 \in candidate_paths : list1 = list2

\* a round of a later payment is planned where the solver has several feasible flows
C24_Witness ==
    /\ solver_called
    /\ n_payments = MaxPayments
    /\ cnt > 0
    /\ candidate_paths # {}
    /\ Cardinality(feasible_flows(sender, receiver, amt, mu, DEFAULT_BASE_THRESHOLD)) > 1

(***************************************************************************)
(* The contract of the ChannelGraph, under GraphSpec.                       *)
(***************************************************************************)
\* C25: every channel of a constructed ChannelGraph is announced and active: a
\* channel entry that is not announced or not active never becomes an edge.
C25_OnlyAnnouncedActiveChannels ==
    \A e \in network : e.channel.public /\ e.channel.active


\* the step is a call of update_knowledge with the arguments recorded in last'
knowledge_updated == pc = "knowledge" /\ last'.op = "update_knowledge"

\* C26: update_knowledge(amt, return_channel, success) of a channel changes the
\* belief exactly so: on success min_liquidity becomes max(min_liquidity,
\* in_flight) and the return channel's max_liquidity becomes min(its
\* max_liquidity, capacity - this min_liquidity); on failure max_liquidity
\* becomes min(max_liquidity, in_flight + amt - 1) and the return channel's
\* min_liquidity becomes max(its min_liquidity, capacity - this max_liquidity);
\* no other field of either channel, and no other channel, changes.
C26_UpdateKnowledge ==
    [][knowledge_updated =>
         LET c == last'.arg[1]
             amount == last'.arg[2]
             success == last'.arg[3] = 1
             r == uncertainty_return_channel(c)
         IN  /\ min_liquidity'[c] = IF success THEN Max(min_liquidity[c], in_flight[c])
                                     ELSE min_liquidity[c]
             /\ max_liquidity'[c] = IF success THEN max_liquidity[c]
                                     ELSE Min(max_liquidity[c], in_flight[c] + amount - 1)
             /\ r # None =>
                   /\ max_liquidity'[r] = IF success
                                           THEN Min(max_liquidity[r],
                                                    Chans[r].capacity - min_liquidity'[c])
                                           ELSE max_liquidity[r]
                   /\ min_liquidity'[r] = IF success THEN min_liquidity[r]
                                           ELSE Max(min_liquidity[r],
                                                    Chans[r].capacity - max_liquidity'[c])
             /\ in_flight' = in_flight
             /\ \A d \in ChannelIds \ {c, r} :
                   /\ min_liquidity'[d] = min_liquidity[d]
                   /\ max_liquidity'[d] = max_liquidity[d]]_vars

\* a failed probe of a channel with an amount in flight has lowered its
\* max_liquidity and raised the min_liquidity of its return channel
C26_Witness ==
    /\ last.op = "update_knowledge"
    /\ last.arg[3] = 0
    /\ last.arg[2] > 0
    /\ uncertainty_return_channel(last.arg[1]) # None
    /\ in_flight[last.arg[1]] > 0
    /\ exit_code = 0
    /\ max_liquidity[last.arg[1]] = in_flight[last.arg[1]] + last.arg[2] - 1
    /\ min_liquidity[uncertainty_return_channel(last.arg[1])]
         = Chans[last.arg[1]].capacity - max_liquidity[last.arg[1]]
    /\ min_liquidity[uncertainty_return_channel(last.arg[1])] > 0


\* the next planned attempt of the round, the one attempt_payments probes
probed == sub_attempts[first_of(filter_attempts(sub_attempts, PLANNED))]

\* the step probes the next planned attempt
probing ==
    /\ pc = "attempt"
    /\ filter_attempts(sub_attempts, PLANNED) # {}
    /\ sub_attempts' # sub_attempts

\* the hops of the probed path whose oracle channel cannot take the amount
violating == {h \in DOMAIN probed.path :
                oracle_in_flight[probed.path[h]] + probed.amount
                    > actual_liquidity[probed.path[h]]}

\* C27: the probe of a PLANNED attempt succeeds (the attempt becomes INFLIGHT)
\* exactly when every oracle channel on its path has in_flight + amount <=
\* actual_liquidity; on success the in_flight of every channel on the path
\* grows by exactly the amount in both networks; on failure the attempt is
\* FAILED and the erring channel, the one the walk stops at and the failure is
\* learned for, is the first channel on the path that violates the condition.
C27_ProbeOutcome ==
    [][probing =>
         LET i == first_of(filter_attempts(sub_attempts, PLANNED))
             path == probed.path
             amount == probed.amount
         IN  /\ sub_attempts'[i].status = INFLIGHT <=> violating = {}
             /\ violating = {} =>
                   \A h \in DOMAIN path :
                      /\ oracle_in_flight'[path[h]] = oracle_in_flight[path[h]] + amount
                      /\ in_flight'[path[h]] = in_flight[path[h]] + amount
             /\ violating # {} =>
                   LET erring == first_of(violating)
                   IN  /\ sub_attempts'[i].status = FAILED
                       /\ \A h \in DOMAIN path :
                             oracle_in_flight'[path[h]] =
                                IF h < erring THEN oracle_in_flight[path[h]] + amount
                                ELSE oracle_in_flight[path[h]]
                       /\ max_liquidity'[path[erring]] =
                             Min(max_liquidity[path[erring]],
                                 in_flight'[path[erring]] + amount - 1)
                       /\ \A h \in DOMAIN path :
                             h > erring => /\ max_liquidity'[path[h]] = max_liquidity[path[h]]
                                           /\ min_liquidity'[path[h]] = min_liquidity[path[h]]]_vars

\* a round in which one probe has succeeded and another, over two hops, has
\* failed at its second hop: the first hop holds the amount in flight
C27_Witness ==
    /\ pc = "attempt"
    /\ \E i, j \in DOMAIN sub_attempts :
          /\ sub_attempts[i].status = INFLIGHT
          /\ sub_attempts[j].status = FAILED
          /\ Len(sub_attempts[j].path) = 2
          /\ oracle_in_flight[sub_attempts[j].path[1]] >= sub_attempts[j].amount
          /\ max_liquidity[sub_attempts[j].path[2]] < sub_attempts[j].amount


\* the attempts of the payment: those of the earlier rounds, then those of the
\* round under way
payment_attempts == attempts \o sub_attempts

\* the status changes the claim allows
allowed_changes == {<< PLANNED, INFLIGHT >>, << PLANNED, FAILED >>,
                    << INFLIGHT, SETTLED >>, << INFLIGHT, FAILED >>}

RECURSIVE residual_flow(_, _, _)
residual_flow(G, list, k) ==
    IF k = 0 THEN G
    ELSE LET before == residual_flow(G, list, k - 1)
         IN  [c \in DOMAIN G |->
                IF in_path(c, list[k].path) THEN before[c] - list[k].amount ELSE before[c]]

\* the channels of the path lead from s to d, each carrying flow
leads_over_flow(path, flow, s, d) ==
    /\ Len(path) >= 1
    /\ Chans[path[1]].src = s
    /\ Chans[path[Len(path)]].dest = d
    /\ \A h \in 1..(Len(path) - 1) : Chans[path[h]].dest = Chans[path[h + 1]].src
    /\ \A h \in DOMAIN path : flow[path[h]] > 0

\* C29: for every feasible integer flow of a round, the attempts that
\* Payment._dissect_flow_to_paths emits have amounts > 0 that sum to the value
\* of the flow, the amount of the round; every path leads from the sender to
\* the receiver over channels carrying flow; and no edge of the auxiliary
\* graph carries a negative flow at any point of the decomposition.
C29_FlowDecomposition ==
    solver_called =>
        \A flow \in feasible_flows(sender, receiver, amt, mu, DEFAULT_BASE_THRESHOLD) :
           LET list == Payment_dissect_flow_to_paths(flow, sender, receiver)
           IN  /\ \A i \in DOMAIN list : list[i].amount > 0
               /\ sum_amounts(list, DOMAIN list) = amt
               /\ \A i \in DOMAIN list : leads_over_flow(list[i].path, flow, sender, receiver)
               /\ \A k \in 0..Len(list) : \A c \in UncertaintyChannels :
                     residual_flow(Payment_flow_graph(flow), list, k)[c] >= 0

\* a round whose optimal flow uses two parallel channels and is dissected into
\* more than one attempt
C29_Witness ==
    /\ solver_called
    /\ \E flow \in optimal_flows(sender, receiver, amt, mu, DEFAULT_BASE_THRESHOLD) :
          /\ \E c, x \in UncertaintyChannels :
                /\ c # x
                /\ Chans[c].src = Chans[x].src
                /\ Chans[c].dest = Chans[x].dest
                /\ flow[c] > 0
                /\ flow[x] > 0
          /\ Len(Payment_dissect_flow_to_paths(flow, sender, receiver)) > 1

\* the step is a call of UncertaintyNetwork.settle_attempt with the attempt
\* recorded in last'
belief_settling == pc = "knowledge" /\ last'.op = "settle_attempt"

\* C30: UncertaintyNetwork.settle_attempt(a) completes for every attempt and
\* every belief, and sets min_liquidity and max_liquidity of each channel on
\* the path to max(. - a.amount, 0) and those of its reverse channel, when
\* there is one, to min(. + a.amount, capacity).
C30_BeliefSettlementCompletes ==
    [][belief_settling =>
         LET c == last'.arg[1]
             amount == last'.arg[2]
             r == uncertainty_return_channel(c)
         IN  /\ raised' = ""
             /\ min_liquidity'[c] = Max(min_liquidity[c] - amount, 0)
             /\ max_liquidity'[c] = Max(max_liquidity[c] - amount, 0)
             /\ r # None =>
                   /\ min_liquidity'[r] = Min(min_liquidity[r] + amount, Chans[r].capacity)
                   /\ max_liquidity'[r] = Min(max_liquidity[r] + amount, Chans[r].capacity)]_vars

\* C31: in every reachable state of any sequence of probes and settlements,
\* every oracle channel has 0 <= in_flight <= actual_liquidity <= capacity.
C31_OracleInFlightWithinLiquidity ==
    \A c \in ChannelIds :
       /\ 0 <= oracle_in_flight[c]
       /\ oracle_in_flight[c] <= actual_liquidity[c]
       /\ actual_liquidity[c] <= Chans[c].capacity

\* a payment has settled an attempt over a channel that still holds the amount
\* of a failed attempt in flight, and another channel is filled to its
\* actual_liquidity
C31_Witness ==
    /\ filter_attempts(attempts, SETTLED) # {}
    /\ \E c \in ChannelIds : oracle_in_flight[c] > 0
    /\ \E c \in ChannelIds : actual_liquidity[c] > 0 /\ actual_liquidity[c] < liquidity_start[c]

\* C32: after any sequence of payments, settlements and forget_information
\* calls, the in_flight of every uncertainty channel equals the in_flight of
\* its oracle channel.
C32_InFlightAgrees ==
    \A c \in UncertaintyChannels : in_flight[c] = oracle_in_flight[c]

\* C33: the belief is sound: after any sequence of payments and
\* forget_information calls every channel has
\* min_liquidity <= actual_liquidity <= max_liquidity.
C33_BeliefIsSound ==
    \A c \in UncertaintyChannels :
       pc # "construct" =>
          /\ min_liquidity[c] <= actual_liquidity[c]
          /\ actual_liquidity[c] <= max_liquidity[c]

\* the step ends a round of the payment: the residual amount is evaluated
round_ends == pc = "attempt" /\ pc' = "loop"

\* C34: at the end of every round of a payment the residual amount is
\* total_amount minus the sum of the amounts of the payment's INFLIGHT
\* attempts and lies in 0..total_amount; it is 0 only when the INFLIGHT
\* attempts sum to total_amount.
C34_ResidualIsWhatIsNotInFlight ==
    [][round_ends =>
         /\ amt' = total_amount - sum_amounts(attempts', filter_attempts(attempts', INFLIGHT))
         /\ 0 <= amt'
         /\ amt' <= total_amount]_vars

\* the arcs _prepare_mcf_solver adds for the pieces of a channel: all of them,
\* or the first three when the network is pruned
arcs_added(pieces) == {pieces, SubSeq(pieces, 1, Min(Len(pieces), 3))}

\* C35: for every belief state the capacities of the arcs added to the min
\* cost flow problem for a channel are each >= 0 and sum to at most
\* max(max_liquidity - in_flight, 0), with or without pruning.
C35_ArcsWithinBelief ==
    called("get_piecewise_linearized_costs") =>
        \A arcs \in arcs_added(last.result) :
           /\ \A i \in DOMAIN arcs : arcs[i].capacity >= 0
           /\ arcs_capacity(arcs) <= Max(max_liquidity[_channel] - in_flight[_channel], 0)

\* C36: Payment.execute is all or nothing for an attempt across both graphs:
\* the attempt is either SETTLED with the oracle channels and the uncertainty
\* channels of its whole path updated, or still INFLIGHT with no channel
\* changed in either graph.
C36_SettlementAllOrNothing ==
    [][settling =>
         LET i == first_of(filter_attempts(attempts, INFLIGHT))
             path == attempts[i].path
             amount == attempts[i].amount
         IN  \/ /\ attempts'[i].status = SETTLED
                /\ \A h \in DOMAIN path :
                      /\ actual_liquidity'[path[h]] = actual_liquidity[path[h]] - amount
                      /\ oracle_in_flight'[path[h]] = oracle_in_flight[path[h]] - amount
                      /\ in_flight'[path[h]] = in_flight[path[h]] - amount
             \/ /\ attempts'[i].status = INFLIGHT
                /\ UNCHANGED << oracle_vars, belief_vars >>]_vars

\* C37: Payment._dissect_flow_to_paths and
\* SyncSimulatedPaymentSession._dissect_flow_to_paths produce the same list of
\* attempts (paths, amounts, order) for every flow of the solver, also for
\* flows over two parallel channels between the same pair of nodes.
C37_DecomposersAgree ==
    solver_called =>
        \A flow \in optimal_flows(sender, receiver, amt, mu, DEFAULT_BASE_THRESHOLD) :
           Payment_dissect_flow_to_paths(flow, sender, receiver)
               = _dissect_flow_to_paths(flow, sender, receiver)

\* the edges of the auxiliary graph: the channels that carry flow
flow_edges(G) == {c \in DOMAIN G : G[c] > 0}

\* C38: the loop of Payment._dissect_flow_to_paths terminates for every flow:
\* every iteration removes at least one edge from the auxiliary graph, the
\* loop ends when no path from the sender to the receiver is left, and the
\* number of attempts is at most the number of channels carrying flow.
C38_DecompositionTerminates ==
    solver_called =>
        \A flow \in feasible_flows(sender, receiver, amt, mu, DEFAULT_BASE_THRESHOLD) :
           LET G == Payment_flow_graph(flow)
               list == Payment_dissect_flow_to_paths(flow, sender, receiver)
           IN  /\ \A k \in DOMAIN list :
                     /\ flow_edges(residual_flow(G, list, k))
                           \subseteq flow_edges(residual_flow(G, list, k - 1))
                     /\ flow_edges(residual_flow(G, list, k))
                           # flow_edges(residual_flow(G, list, k - 1))
               /\ node_paths(sender, receiver, {sender}, residual_flow(G, list, Len(list))) = {}
               /\ Len(list) <= Cardinality(flow_edges(G))

\* a round with a flow that carries more than one unit over a channel and is
\* dissected in as many iterations as it has channels with flow less one
C38_Witness ==
    /\ solver_called
    /\ \E flow \in feasible_flows(sender, receiver, amt, mu, DEFAULT_BASE_THRESHOLD) :
          /\ \E c \in UncertaintyChannels : flow[c] > 1
          /\ Len(Payment_dissect_flow_to_paths(flow, sender, receiver)) > 1
          /\ Len(Payment_dissect_flow_to_paths(flow, sender, receiver))
                < Cardinality(flow_edges(Payment_flow_graph(flow)))

\* C39: for an edge with a policy for node1 and for node2, lnd2cln_json returns
\* two entries with the short_channel_id of the edge and opposite directions:
\* one from node1_pub to node2_pub with the policy of node1, one from
\* node2_pub to node1_pub with the policy of node2.
C39_BothDirectionsConverted ==
    called("lnd2cln_json") =>
        \A k \in DOMAIN last.arg :
           LET edge == last.arg[k]
               entries == {last.result[i] : i \in DOMAIN last.result}
           IN  (edge.node1_policy # "None" /\ edge.node2_policy # "None") =>
                  /\ Len(last.result) = 2 * Len(last.arg)
                  /\ \E e \in entries :
                        /\ e.source = edge.node1_pub
                        /\ e.destination = edge.node2_pub
                        /\ e.short_channel_id = edge.channel_id
                        /\ e.active = (edge.node1_policy = "disabled")
                  /\ \E e \in entries :
                        /\ e.source = edge.node2_pub
                        /\ e.destination = edge.node1_pub
                        /\ e.short_channel_id = edge.channel_id
                        /\ e.active = (edge.node2_policy = "disabled")

====
